---- MODULE Spec2Model ----
(***************************************************************************)
(* A model of the token lifecycle of py_shop_api_task: users/views.py      *)
(* (Register, Login, Refresh, Logout, Me), users/authentication.py         *)
(* (the per-request JWT authentication) and users/models.py (the user and  *)
(* refresh-token tables).                                                  *)
(*                                                                         *)
(* Time is the wall clock in whole seconds, as PyJWT stores exp and iat.   *)
(* A handler is cut into steps at its reads of the wall clock, so that     *)
(* the clock, the configuration and other requests can move between two    *)
(* reads of one handler, as they can in the running server.                *)
(***************************************************************************)
EXTENDS Integers, FiniteSets, Sequences, TLC

(* ------------------------------ bounds --------------------------------- *)

\* Users that can ever be registered (ids 1..MaxUsers are handed out once).
MaxUsers == 2
\* One-second advances of the clock within a day.
MaxSecTicks == 1
\* One-day advances of the clock.
MaxDayTicks == 1

(* ------------------------- program constants --------------------------- *)

\* timedelta(days=d) is d * 86400 seconds.
SecondsPerDay == 86400
\* views.py: ACCESS_TOKEN_EXPIRATION = timedelta(minutes=15), in seconds.
ACCESS_TOKEN_EXPIRATION == 900

\* Values an administrator gives config.ACCESS_TOKEN_LIFETIME (seconds).
AccessTTLs == {1, 900}
\* Values an administrator gives config.REFRESH_TOKEN_LIFETIME (days).
RefreshTTLs == {1, 2}

\* Concurrent Login requests.
Procs == {1, 2}

(* ------------------------------- values -------------------------------- *)

Email(l, d) == [local |-> l, domain |-> d]
NoEmail == Email("", "")
EmailInputs == {Email("a", "x.com"), Email("b", "X.com"), Email("b", "x.com")}
\* Passwords sent to Register, and passwords sent to Login.
Passwords == {"pw1"}
LoginPasswords == {"pw1", "pw2"}

\* BaseUserManager.normalize_email lowercases the domain part only.
LowerDomain(d) == IF d = "X.com" THEN "x.com" ELSE d
normalize_email(e) == [e EXCEPT !.domain = LowerDomain(@)]

\* Fault: a password check that accepts any password.
check_password_any(user, pw) == TRUE

\* set_password / check_password: the trusted hashing capability.
make_password(pw) == <<"digest", pw>>
check_password(user, pw) == user.password = make_password(pw)

\* The empty or absent token of a request body.
NoToken == [user_id |-> 0, email |-> NoEmail, exp |-> 0, iat |-> 0, sig |-> "none"]

\* jwt.encode(payload, SECRET_KEY, "HS256"): a token is its payload and a
\* signature made with the server's key; equal payloads give equal strings.
jwt_encode(payload) ==
    [user_id |-> payload.user_id, email |-> payload.email,
     exp |-> payload.exp, iat |-> payload.iat, sig |-> "HS256"]

\* Tokens a client can make without the key: a payload with a signature
\* that does not verify, and a string that is no JWT at all.
Forged ==
    {[user_id |-> 1, email |-> Email("a", "x.com"),
      exp |-> 3 * SecondsPerDay, iat |-> 0, sig |-> "bad"],
     [user_id |-> 0, email |-> NoEmail, exp |-> 0, iat |-> 0, sig |-> "garbage"]}

\* Fault: an expiry check that still accepts a token at its exp second.
jwt_decode_strict(token, t) ==
    IF token.sig # "HS256" THEN [ok |-> FALSE, err |-> "InvalidTokenError"]
    ELSE IF token.exp < t THEN [ok |-> FALSE, err |-> "ExpiredSignatureError"]
    ELSE [ok |-> TRUE, err |-> "none"]

\* jwt.decode(token, SECRET_KEY, algorithms=["HS256"]) at clock time t: the
\* signature is verified first, then exp (expired when exp <= t).
jwt_decode(token, t) ==
    IF token.sig # "HS256" THEN [ok |-> FALSE, err |-> "InvalidTokenError"]
    ELSE IF token.exp <= t THEN [ok |-> FALSE, err |-> "ExpiredSignatureError"]
    ELSE [ok |-> TRUE, err |-> "none"]

\* views.decode_token: the payload, or None for either error.
decode_token(token, t) == jwt_decode(token, t).ok

(* ------------------------------- state --------------------------------- *)

VARIABLES
    users,      \* CustomUser rows: [id, email, password]
    nextId,     \* the next primary key of CustomUser
    store,      \* RefreshTokenModel rows: [user, token, expires_at]
    now,        \* the wall clock, in seconds
    config,     \* constance config: [access (seconds), refresh (days)]
    lg,         \* per Login request in flight: its position, the time it
                \* started (t0) and its locals
    rf,         \* the Refresh request in flight: its position and locals
    issued,     \* the access token last issued, as its client holds it
    gone,       \* the refresh token last taken off the store, as its client holds it
    resp        \* the response last sent

vars == <<users, nextId, store, now, config, lg, rf, issued, gone, resp>>

Idle == [pc |-> "idle", t0 |-> 0, user |-> 0, email |-> NoEmail, acc_ttl |-> 0,
         ref_ttl |-> 0, exp |-> 0, access |-> NoToken, refresh |-> NoToken,
         expires_at |-> 0]


RfIdle == [pc |-> "idle", user |-> 0, email |-> NoEmail, exp |-> 0, token |-> NoToken]

\* What is recorded of a response: the operation, the status and message,
\* and the user the response names. The tokens a response returns are
\* locals of the step that sends it (lg[p].access, lg[p].refresh,
\* RefreshAccess) and are kept in issued.
Response(op, status, detail, user) ==
    [op |-> op, status |-> status, detail |-> detail, user |-> user]

Init ==
    /\ users = {}
    /\ nextId = 1
    /\ store = {}
    /\ now = 0
    /\ config \in [access : AccessTTLs, refresh : RefreshTTLs]
    /\ lg = [p \in Procs |-> Idle]
    /\ rf = RfIdle
    /\ issued = NoToken
    /\ gone = NoToken
    /\ resp = Response("none", 0, "", 0)

\* No request is in flight.
Quiet == rf.pc = "idle" /\ \A p \in Procs : lg[p].pc = "idle"

\* The tokens a request can carry: one issued earlier (the last access token,
\* a refresh token on file, the refresh token last taken off the store), one
\* made without the key, or none.
TokenInputs == {issued, gone} \cup {r.token : r \in store} \cup Forged \cup {NoToken}

(* ----------------------------- environment ----------------------------- *)

\* The wall clock advances by a second, at any moment.
Tick ==
    /\ now % SecondsPerDay < MaxSecTicks
    /\ now' = now + 1
    /\ UNCHANGED <<users, nextId, store, config, lg, rf, issued, gone, resp>>

\* A day passes. No request stays in flight for a day.
NextDay ==
    /\ Quiet
    /\ now \div SecondsPerDay < MaxDayTicks
    /\ now' = now + SecondsPerDay
    /\ UNCHANGED <<users, nextId, store, config, lg, rf, issued, gone, resp>>

\* An administrator changes a lifetime in the constance config.
SetConfig ==
    /\ \E c \in [access : AccessTTLs, refresh : RefreshTTLs] :
          /\ c # config
          /\ config' = c
    /\ UNCHANGED <<users, nextId, store, now, lg, rf, issued, gone, resp>>

\* A user is deleted (admin site); RefreshTokenModel.user is on_delete=CASCADE.
DeleteUser(uid) ==
    /\ \E u \in users : u.id = uid
    /\ users' = {u \in users : u.id # uid}
    /\ store' = {r \in store : r.user # uid}
    /\ gone' = IF \E r \in store : r.user = uid
               THEN (CHOOSE r \in store : r.user = uid).token ELSE gone
    /\ resp' = Response("delete_user", 204, "", uid)
    /\ UNCHANGED <<nextId, now, config, lg, rf, issued>>

(* ------------------------------ Register ------------------------------- *)

\* Fault: a Register without the unique-email validation and constraint.
RegisterNoUnique(email, password) ==
    /\ nextId <= MaxUsers
    /\ users' = users \cup {[id |-> nextId, email |-> normalize_email(email),
                             password |-> make_password(password)]}
    /\ nextId' = nextId + 1
    /\ resp' = Response("register", 201, "", nextId)
    /\ UNCHANGED <<store, now, config, lg, rf, issued, gone>>

\* RegisterView.post: the serializer's unique-email validation sees the
\* email as sent; create_user stores it normalized, and a clash found by the
\* table's unique constraint is reported by the serializer as a 400 too.
Register(email, password) ==
    /\ IF \/ \E u \in users : u.email = email
          \/ \E u \in users : u.email = normalize_email(email)
       THEN /\ resp' = Response("register", 400, "validation", 0)
            /\ UNCHANGED <<users, nextId>>
       ELSE /\ nextId <= MaxUsers
            /\ users' = users \cup {[id |-> nextId, email |-> normalize_email(email),
                                     password |-> make_password(password)]}
            /\ nextId' = nextId + 1
            /\ resp' = Response("register", 201, "",
                                nextId)
    /\ UNCHANGED <<store, now, config, lg, rf, issued, gone>>

(* ------------------------------- tokens -------------------------------- *)

\* Fault: a lifetime given in seconds taken for minutes.
token_exp_minutes(t, expiration) == t + expiration * 60

\* create_token, first read of the clock: "exp": timezone.now() + expiration.
token_exp(t, expiration) == t + expiration

\* create_token, second read of the clock: "iat": timezone.now(); then the
\* payload {**data, exp, iat} is encoded. PyJWT writes both as whole seconds.
create_token(data, exp, t) ==
    jwt_encode([user_id |-> data.user_id, email |-> data.email, exp |-> exp, iat |-> t])

\* timedelta(days=d), in seconds.
days(d) == d * SecondsPerDay

(* -------------------------------- Login -------------------------------- *)

\* Fault: Login taking the access lifetime from the module constant, as
\* Refresh does, and not from the config.
access_token_lifetime_const == ACCESS_TOKEN_EXPIRATION

\* access_token_lifetime = timedelta(seconds=config.ACCESS_TOKEN_LIFETIME).
access_token_lifetime == config.access

\* refresh_token_lifetime = timedelta(days=config.REFRESH_TOKEN_LIFETIME).
refresh_token_lifetime == days(config.refresh)

\* CustomTokenObtainPairView.post up to the first clock read: the user is
\* looked up by the email as sent, the password checked, both lifetimes read
\* from the config, and the access token's exp computed.
LoginVerify(p, email, password) ==
    /\ lg[p].pc = "idle"
    /\ IF ~ \E u \in users : u.email = email
       THEN /\ resp' = Response("login", 404, "User does not exist", 0)
            /\ UNCHANGED lg
       ELSE LET user == CHOOSE u \in users : u.email = email IN
            IF ~ check_password(user, password)
            THEN /\ resp' = Response("login", 401, "Invalid credentials",
                                     0)
                 /\ UNCHANGED lg
            ELSE /\ lg' = [lg EXCEPT ![p] =
                             [Idle EXCEPT !.pc = "access_iat", !.t0 = now,
                                          !.user = user.id,
                                          !.email = user.email,
                                          !.acc_ttl = access_token_lifetime,
                                          !.ref_ttl = refresh_token_lifetime,
                                          !.exp = token_exp(now, access_token_lifetime)]]
                 /\ UNCHANGED resp
    /\ UNCHANGED <<users, nextId, store, now, config, rf, issued, gone>>

\* create_token for the access token, second clock read.
LoginAccessIat(p) ==
    /\ lg[p].pc = "access_iat"
    /\ lg' = [lg EXCEPT ![p].pc = "refresh_exp",
                        ![p].access = create_token([user_id |-> lg[p].user,
                                                    email |-> lg[p].email],
                                                   lg[p].exp, now)]
    /\ UNCHANGED <<users, nextId, store, now, config, rf, issued, gone, resp>>

\* create_token for the refresh token, first clock read.
LoginRefreshExp(p) ==
    /\ lg[p].pc = "refresh_exp"
    /\ lg' = [lg EXCEPT ![p].pc = "refresh_iat",
                        ![p].exp = token_exp(now, lg[p].ref_ttl)]
    /\ UNCHANGED <<users, nextId, store, now, config, rf, issued, gone, resp>>

\* create_token for the refresh token, second clock read.
LoginRefreshIat(p) ==
    /\ lg[p].pc = "refresh_iat"
    /\ lg' = [lg EXCEPT ![p].pc = "save",
                        ![p].refresh = create_token([user_id |-> lg[p].user,
                                                     email |-> lg[p].email],
                                                    lg[p].exp, now)]
    /\ UNCHANGED <<users, nextId, store, now, config, rf, issued, gone, resp>>

\* The 200 response of Login, and what the clients keep of it.
LoginOk(p) ==
    /\ resp' = Response("login", 200, "", lg[p].user)
    /\ issued' = lg[p].access
    /\ lg' = [lg EXCEPT ![p] = Idle]

\* An exception no handler catches: the transaction is rolled back and the
\* server answers 500.
LoginError(p, exc) ==
    /\ resp' = Response("login", 500, exc, lg[p].user)
    /\ lg' = [lg EXCEPT ![p] = Idle]
    /\ UNCHANGED <<store, issued, gone>>

\* The rows get(user=user) sees.
RowsOf(uid) == {r \in store : r.user = uid}

\* Fault: a token column without the unique constraint.
TokenTakenNever(token, own) == FALSE

\* RefreshTokenModel.token is unique=True: saving token for a row other than
\* those in own is refused when some other row holds it.
TokenTaken(token, own) == \E r \in store \ own : r.token = token

\* Fault: the save adds a row and leaves the row found in place.
UpdateRowInsert(p, rows, expires_at) ==
    /\ store' = store \cup {[user |-> lg[p].user, token |-> lg[p].refresh,
                             expires_at |-> expires_at]}
    /\ UNCHANGED gone
    /\ LoginOk(p)

\* Fault: the UPDATE writes expires_at only, and the row keeps its token.
UpdateRowKeepToken(p, rows, expires_at) ==
    /\ store' = (store \ rows) \cup
                {[user |-> lg[p].user, token |-> (CHOOSE r \in rows : TRUE).token,
                  expires_at |-> expires_at]}
    /\ UNCHANGED gone
    /\ LoginOk(p)

\* The UPDATE of update_or_create: token and expires_at of the row found.
UpdateRow(p, rows, expires_at) ==
    IF TokenTaken(lg[p].refresh, rows)
    THEN LoginError(p, "IntegrityError")
    ELSE /\ store' = (store \ rows) \cup
                     {[user |-> lg[p].user, token |-> lg[p].refresh,
                       expires_at |-> expires_at]}
         /\ gone' = LET old == (CHOOSE r \in rows : TRUE).token IN
                    IF old # lg[p].refresh THEN old ELSE gone
         /\ LoginOk(p)

\* save_refresh_token: expires_at from a fresh read of the clock and of the
\* config, then update_or_create's lookup get(user=user). One row found is
\* updated under its row lock; none found leads to the INSERT, a later step;
\* several found raise MultipleObjectsReturned.
LoginSave(p) ==
    /\ lg[p].pc = "save"
    /\ LET expires_at == now + days(config.refresh)
           rows == RowsOf(lg[p].user)
       IN  IF Cardinality(rows) = 0
           THEN /\ lg' = [lg EXCEPT ![p].pc = "create", ![p].expires_at = expires_at]
                /\ UNCHANGED <<store, issued, gone, resp>>
           ELSE IF Cardinality(rows) = 1
           THEN UpdateRow(p, rows, expires_at)
           ELSE LoginError(p, "MultipleObjectsReturned")
    /\ UNCHANGED <<users, nextId, now, config, rf>>

\* get_or_create's INSERT. An IntegrityError (the token is held by a row, or
\* the user is gone) makes get_or_create look the row up again: one row
\* found is then updated by update_or_create, anything else is raised.
LoginCreate(p) ==
    /\ lg[p].pc = "create"
    /\ IF (~ \E u \in users : u.id = lg[p].user) \/ TokenTaken(lg[p].refresh, {})
       THEN LET rows == RowsOf(lg[p].user) IN
            IF Cardinality(rows) = 1
            THEN UpdateRow(p, rows, lg[p].expires_at)
            ELSE IF Cardinality(rows) = 0
            THEN LoginError(p, "IntegrityError")
            ELSE LoginError(p, "MultipleObjectsReturned")
       ELSE /\ store' = store \cup {[user |-> lg[p].user, token |-> lg[p].refresh,
                                     expires_at |-> lg[p].expires_at]}
            /\ UNCHANGED gone
            /\ LoginOk(p)
    /\ UNCHANGED <<users, nextId, now, config, rf>>

(* ------------------------------- Refresh ------------------------------- *)

\* Fault: a Refresh that accepts only a token some row of the store holds.
RefreshBeginStored(token) ==
    /\ rf.pc = "idle"
    /\ IF token = NoToken
       THEN /\ resp' = Response("refresh", 400, "Refresh token is required", 0)
            /\ UNCHANGED rf
       ELSE IF ~ decode_token(token, now) \/ ~ \E r \in store : r.token = token
       THEN /\ resp' = Response("refresh", 401, "Invalid or expired refresh token", 0)
            /\ UNCHANGED rf
       ELSE IF ~ \E u \in users : u.id = token.user_id
       THEN /\ resp' = Response("refresh", 404, "User not found", 0)
            /\ UNCHANGED rf
       ELSE LET user == CHOOSE u \in users : u.id = token.user_id IN
            /\ rf' = [pc |-> "iat", user |-> user.id, email |-> user.email,
                      exp |-> token_exp(now, ACCESS_TOKEN_EXPIRATION), token |-> token]
            /\ UNCHANGED resp
    /\ UNCHANGED <<users, nextId, store, now, config, lg, issued, gone>>

\* Fault: a Refresh that answers a missing user as it answers a bad token.
RefreshBeginNoUser401(token) ==
    /\ rf.pc = "idle"
    /\ IF token = NoToken
       THEN /\ resp' = Response("refresh", 400, "Refresh token is required", 0)
            /\ UNCHANGED rf
       ELSE IF ~ decode_token(token, now) \/ ~ \E u \in users : u.id = token.user_id
       THEN /\ resp' = Response("refresh", 401, "Invalid or expired refresh token", 0)
            /\ UNCHANGED rf
       ELSE LET user == CHOOSE u \in users : u.id = token.user_id IN
            /\ rf' = [pc |-> "iat", user |-> user.id, email |-> user.email,
                      exp |-> token_exp(now, ACCESS_TOKEN_EXPIRATION), token |-> token]
            /\ UNCHANGED resp
    /\ UNCHANGED <<users, nextId, store, now, config, lg, issued, gone>>

\* TokenRefreshView.post up to create_token's first clock read: the token is
\* required, decoded (signature and expiry only: the store is not read), its
\* user loaded by the user_id claim, and the new access token's exp computed
\* from the module constant ACCESS_TOKEN_EXPIRATION.
RefreshBegin(token) ==
    /\ rf.pc = "idle"
    /\ IF token = NoToken
       THEN /\ resp' = Response("refresh", 400, "Refresh token is required", 0)
            /\ UNCHANGED rf
       ELSE IF ~ decode_token(token, now)
       THEN /\ resp' = Response("refresh", 401, "Invalid or expired refresh token", 0)
            /\ UNCHANGED rf
       ELSE IF ~ \E u \in users : u.id = token.user_id
       THEN /\ resp' = Response("refresh", 404, "User not found", 0)
            /\ UNCHANGED rf
       ELSE LET user == CHOOSE u \in users : u.id = token.user_id IN
            /\ rf' = [pc |-> "iat", user |-> user.id, email |-> user.email,
                      exp |-> token_exp(now, ACCESS_TOKEN_EXPIRATION), token |-> token]
            /\ UNCHANGED resp
    /\ UNCHANGED <<users, nextId, store, now, config, lg, issued, gone>>

\* Fault: a Refresh that computes exp at its second clock read, from the
\* configured access lifetime.
RefreshAccessConfigured ==
    create_token([user_id |-> rf.user, email |-> rf.email],
                 token_exp(now, config.access), now)

\* The access token Refresh returns: create_token's second clock read.
RefreshAccess == create_token([user_id |-> rf.user, email |-> rf.email], rf.exp, now)

\* Fault: a Refresh that rotates the refresh token: the row of the user is
\* replaced by one holding the token just made.
RefreshIatRotate ==
    /\ rf.pc = "iat"
    /\ resp' = Response("refresh", 200, "", rf.user)
    /\ issued' = RefreshAccess
    /\ store' = {r \in store : r.user # rf.user} \cup
                {[user |-> rf.user, token |-> RefreshAccess, expires_at |-> rf.exp]}
    /\ UNCHANGED gone
    /\ rf' = RfIdle
    /\ UNCHANGED <<users, nextId, now, config, lg>>

\* The 200 response {access: RefreshAccess}.
RefreshIat ==
    /\ rf.pc = "iat"
    /\ resp' = Response("refresh", 200, "", rf.user)
    /\ issued' = RefreshAccess
    /\ UNCHANGED gone
    /\ rf' = RfIdle
    /\ UNCHANGED <<users, nextId, store, now, config, lg>>

(* -------------------------------- Logout ------------------------------- *)

\* Fault: a Logout that verifies the token before it looks the row up, and
\* so refuses an expired token.
LogoutVerified(token) ==
    /\ IF token = NoToken
       THEN /\ resp' = Response("logout", 400, "Refresh token is required", 0)
            /\ UNCHANGED <<store, gone>>
       ELSE LET rows == {r \in store : r.token = token /\ decode_token(token, now)} IN
            IF rows = {}
            THEN /\ resp' = Response("logout", 400, "Invalid refresh token", 0)
                 /\ UNCHANGED <<store, gone>>
            ELSE /\ store' = store \ rows
                 /\ gone' = token
                 /\ resp' = Response("logout", 200, "User logged out.",
                                     (CHOOSE r \in rows : TRUE).user)
    /\ UNCHANGED <<users, nextId, now, config, lg, rf, issued>>

\* Fault: a Logout that deletes some row of the store, whichever token it
\* holds, when a row holds the token sent.
LogoutAny(token) ==
    /\ IF token = NoToken
       THEN /\ resp' = Response("logout", 400, "Refresh token is required", 0)
            /\ UNCHANGED <<store, gone>>
       ELSE LET rows == {r \in store : r.token = token} IN
            IF rows = {}
            THEN /\ resp' = Response("logout", 400, "Invalid refresh token", 0)
                 /\ UNCHANGED <<store, gone>>
            ELSE /\ \E r \in store : store' = store \ {r}
                 /\ gone' = token
                 /\ resp' = Response("logout", 200, "User logged out.",
                                     (CHOOSE r \in rows : TRUE).user)
    /\ UNCHANGED <<users, nextId, now, config, lg, rf, issued>>

\* Fault: a Logout that deletes every row of the store.
LogoutAll(token) ==
    /\ IF token = NoToken
       THEN /\ resp' = Response("logout", 400, "Refresh token is required", 0)
            /\ UNCHANGED <<store, gone>>
       ELSE LET rows == {r \in store : r.token = token} IN
            IF rows = {}
            THEN /\ resp' = Response("logout", 400, "Invalid refresh token", 0)
                 /\ UNCHANGED <<store, gone>>
            ELSE /\ store' = {}
                 /\ gone' = token
                 /\ resp' = Response("logout", 200, "User logged out.",
                                     (CHOOSE r \in rows : TRUE).user)
    /\ UNCHANGED <<users, nextId, now, config, lg, rf, issued>>

\* Fault: a Logout that answers success whether or not a row holds the token.
LogoutIdempotent(token) ==
    /\ IF token = NoToken
       THEN /\ resp' = Response("logout", 400, "Refresh token is required", 0)
            /\ UNCHANGED <<store, gone>>
       ELSE /\ store' = {r \in store : r.token # token}
            /\ gone' = IF \E r \in store : r.token = token THEN token ELSE gone
            /\ resp' = Response("logout", 200, "User logged out.", token.user_id)
    /\ UNCHANGED <<users, nextId, now, config, lg, rf, issued>>

\* LogoutView.post: the token is required; the row get(token=...) finds is
\* deleted, and DoesNotExist is answered 400.
Logout(token) ==
    /\ IF token = NoToken
       THEN /\ resp' = Response("logout", 400, "Refresh token is required", 0)
            /\ UNCHANGED <<store, gone>>
       ELSE LET rows == {r \in store : r.token = token} IN
            IF rows = {}
            THEN /\ resp' = Response("logout", 400, "Invalid refresh token", 0)
                 /\ UNCHANGED <<store, gone>>
            ELSE IF Cardinality(rows) = 1
            THEN /\ store' = store \ rows
                 /\ gone' = token
                 /\ resp' = Response("logout", 200, "User logged out.",
                                     (CHOOSE r \in rows : TRUE).user)
            ELSE /\ resp' = Response("logout", 500, "MultipleObjectsReturned", 0)
                 /\ UNCHANGED <<store, gone>>
    /\ UNCHANGED <<users, nextId, now, config, lg, rf, issued>>

(* ---------------------------------- Me --------------------------------- *)

\* Fault: the handler of InvalidTokenError placed before the handler of its
\* subclass ExpiredSignatureError, so that an expired token is reported as
\* invalid.
authenticate_merged(bearer, token, t) ==
    IF ~ bearer THEN [ok |-> FALSE, detail |-> "NotAuthenticated", user |-> 0]
    ELSE IF ~ jwt_decode(token, t).ok
    THEN [ok |-> FALSE, detail |-> "Invalid token", user |-> 0]
    ELSE IF ~ \E u \in users : u.id = token.user_id
    THEN [ok |-> FALSE, detail |-> "User not found", user |-> 0]
    ELSE [ok |-> TRUE, detail |-> "", user |-> token.user_id]

\* Fault: an authentication that takes a token on file in the store for a
\* refresh token and refuses it.
authenticate_access_only(bearer, token, t) ==
    IF ~ bearer THEN [ok |-> FALSE, detail |-> "NotAuthenticated", user |-> 0]
    ELSE IF jwt_decode(token, t).err = "InvalidTokenError" \/ \E r \in store : r.token = token
    THEN [ok |-> FALSE, detail |-> "Invalid token", user |-> 0]
    ELSE IF jwt_decode(token, t).err = "ExpiredSignatureError"
    THEN [ok |-> FALSE, detail |-> "Access token has expired", user |-> 0]
    ELSE IF ~ \E u \in users : u.id = token.user_id
    THEN [ok |-> FALSE, detail |-> "User not found", user |-> 0]
    ELSE [ok |-> TRUE, detail |-> "", user |-> token.user_id]

\* JWTAuthentication.authenticate: None without a Bearer header; otherwise
\* the token is decoded and its user loaded, and each failure raises
\* AuthenticationFailed with its own message.
authenticate(bearer, token, t) ==
    IF ~ bearer THEN [ok |-> FALSE, detail |-> "NotAuthenticated", user |-> 0]
    ELSE IF jwt_decode(token, t).err = "InvalidTokenError"
    THEN [ok |-> FALSE, detail |-> "Invalid token", user |-> 0]
    ELSE IF jwt_decode(token, t).err = "ExpiredSignatureError"
    THEN [ok |-> FALSE, detail |-> "Access token has expired", user |-> 0]
    ELSE IF ~ \E u \in users : u.id = token.user_id
    THEN [ok |-> FALSE, detail |-> "User not found", user |-> 0]
    ELSE [ok |-> TRUE, detail |-> "", user |-> token.user_id]

\* MeView.get behind IsAuthenticated: the authenticated user's id and email.
\* The status of a rejection is set by the framework, not by this code.
Me(bearer, token) ==
    /\ LET a == authenticate(bearer, token, now) IN
       IF a.ok
       THEN resp' = Response("me", 200, "", a.user)
       ELSE resp' = Response("me", 0, a.detail, 0)
    /\ UNCHANGED <<users, nextId, store, now, config, lg, rf, issued, gone>>

(* -------------------------------- codec -------------------------------- *)

\* The claims create_token is given, and the lifetimes it can be given: the
\* configured ones, the module constant, and a lifetime of zero.
CodecData == {[user_id |-> i, email |-> e] : i \in 1..MaxUsers, e \in EmailInputs}
CodecTTLs == {0, ACCESS_TOKEN_EXPIRATION} \cup AccessTTLs \cup {days(d) : d \in RefreshTTLs}

\* create_token(data, expiration) called with both clock reads in one second.
CodecIssue(data, ttl) ==
    /\ issued' = create_token(data, token_exp(now, ttl), now)
    /\ resp' = Response("create_token", 0, "", data.user_id)
    /\ UNCHANGED <<users, nextId, store, now, config, lg, rf, gone>>

\* decode_token(token) called on the token last created: the payload, or
\* the error that makes it None.
CodecVerify ==
    /\ issued # NoToken
    /\ resp' = Response("decode_token", 0, jwt_decode(issued, now).err,
                        IF decode_token(issued, now) THEN issued.user_id ELSE 0)
    /\ UNCHANGED <<users, nextId, store, now, config, lg, rf, issued, gone>>

(* -------------------------------- store -------------------------------- *)

\* Refresh tokens save_refresh_token can be handed: one made for each user id.
StoreTokens ==
    {create_token([user_id |-> i, email |-> Email("a", "x.com")], days(1), 0) :
        i \in 1..MaxUsers}

\* save_refresh_token(user, refresh_token) called with an existing user and
\* any of these tokens; LoginSave and LoginCreate then carry the call out.
SaveRefreshToken(p, uid, token) ==
    /\ lg[p].pc = "idle"
    /\ \E u \in users : u.id = uid
    /\ lg' = [lg EXCEPT ![p] = [Idle EXCEPT !.pc = "save", !.t0 = now,
                                            !.user = uid, !.refresh = token]]
    /\ UNCHANGED <<users, nextId, store, now, config, rf, issued, gone, resp>>

(* ---------------------------- specifications --------------------------- *)

\* The whole service: requests served concurrently, every step of every
\* handler interleaved with the others, the clock and the administrator.
Next ==
    \/ Tick
    \/ NextDay
    \/ SetConfig
    \/ \E uid \in 1..MaxUsers : DeleteUser(uid)
    \/ \E e \in EmailInputs, pw \in Passwords : Register(e, pw)
    \/ \E p \in Procs, e \in EmailInputs, pw \in LoginPasswords : LoginVerify(p, e, pw)
    \/ \E p \in Procs : LoginAccessIat(p)
    \/ \E p \in Procs : LoginRefreshExp(p)
    \/ \E p \in Procs : LoginRefreshIat(p)
    \/ \E p \in Procs : LoginSave(p)
    \/ \E p \in Procs : LoginCreate(p)
    \/ \E t \in TokenInputs : RefreshBegin(t)
    \/ RefreshIat
    \/ \E t \in TokenInputs : Logout(t)
    \/ \E b \in BOOLEAN, t \in TokenInputs : Me(b, t)

Spec == Init /\ [][Next]_vars

\* The worker and the email of the one-request and one-user scenarios.
OneProc == {1}
OneEmail == {Email("a", "x.com")}

\* Requests served one after another, for two users: a request starts only
\* when no other is in flight, all requests of a day fall in one second, and
\* days pass between requests. The configuration stays as first set
\* (1 second, 1 day).
InitSeq == Init /\ config = [access |-> 1, refresh |-> 1]

NextSeq ==
    \/ NextDay
    \/ \E uid \in 1..MaxUsers : Quiet /\ DeleteUser(uid)
    \/ \E e \in EmailInputs, pw \in Passwords : Quiet /\ Register(e, pw)
    \/ \E p \in OneProc, e \in EmailInputs, pw \in LoginPasswords :
          Quiet /\ LoginVerify(p, e, pw)
    \/ \E p \in OneProc : LoginAccessIat(p)
    \/ \E p \in OneProc : LoginRefreshExp(p)
    \/ \E p \in OneProc : LoginRefreshIat(p)
    \/ \E p \in OneProc : LoginSave(p)
    \/ \E p \in OneProc : LoginCreate(p)
    \/ \E t \in TokenInputs : Quiet /\ RefreshBegin(t)
    \/ RefreshIat
    \/ \E t \in TokenInputs : Quiet /\ Logout(t)
    \/ \E b \in BOOLEAN, t \in TokenInputs : Quiet /\ Me(b, t)

SpecSeq == InitSeq /\ [][NextSeq]_vars

\* Requests served one after another, for one user, while the clock ticks
\* between the steps of a request and the administrator changes the
\* lifetimes between requests.
NextTtl ==
    \/ Tick
    \/ NextDay
    \/ Quiet /\ SetConfig
    \/ \E e \in OneEmail, pw \in Passwords : Quiet /\ Register(e, pw)
    \/ \E p \in OneProc, e \in OneEmail, pw \in LoginPasswords :
          Quiet /\ LoginVerify(p, e, pw)
    \/ \E p \in OneProc : LoginAccessIat(p)
    \/ \E p \in OneProc : LoginRefreshExp(p)
    \/ \E p \in OneProc : LoginRefreshIat(p)
    \/ \E p \in OneProc : LoginSave(p)
    \/ \E p \in OneProc : LoginCreate(p)
    \/ \E t \in TokenInputs : Quiet /\ RefreshBegin(t)
    \/ RefreshIat
    \/ \E t \in TokenInputs : Quiet /\ Logout(t)
    \/ \E b \in BOOLEAN, t \in TokenInputs : Quiet /\ Me(b, t)

SpecTtl == Init /\ [][NextTtl]_vars

\* Two Login requests of one user served concurrently, their steps
\* interleaved with each other, with the clock and with Logout.
NextConc ==
    \/ Tick
    \/ NextDay
    \/ \E e \in OneEmail, pw \in Passwords : Register(e, pw)
    \/ \E p \in Procs, e \in OneEmail, pw \in LoginPasswords : LoginVerify(p, e, pw)
    \/ \E p \in Procs : LoginAccessIat(p)
    \/ \E p \in Procs : LoginRefreshExp(p)
    \/ \E p \in Procs : LoginRefreshIat(p)
    \/ \E p \in Procs : LoginSave(p)
    \/ \E p \in Procs : LoginCreate(p)
    \/ \E t \in TokenInputs : Logout(t)

SpecConc == InitSeq /\ [][NextConc]_vars

\* create_token and decode_token called directly, at any clock value.
NextCodec ==
    \/ Tick
    \/ NextDay
    \/ \E data \in CodecData, ttl \in CodecTTLs : CodecIssue(data, ttl)
    \/ CodecVerify

SpecCodec == InitSeq /\ [][NextCodec]_vars

\* The refresh-token store on its own, within one second: save_refresh_token
\* called by two workers with any user and token, and rows deleted by Logout.
NextStore ==
    \/ \E e \in EmailInputs, pw \in Passwords : Register(e, pw)
    \/ \E p \in Procs, uid \in 1..MaxUsers, t \in StoreTokens : SaveRefreshToken(p, uid, t)
    \/ \E p \in Procs : LoginSave(p)
    \/ \E p \in Procs : LoginCreate(p)
    \/ \E t \in TokenInputs : Logout(t)

SpecStore == InitSeq /\ [][NextStore]_vars

\* Requests of two users, where Logout is served also while a Refresh is in
\* flight between its two clock reads.
NextPair ==
    \/ NextDay
    \/ \E e \in EmailInputs, pw \in Passwords : Quiet /\ Register(e, pw)
    \/ \E p \in OneProc, e \in EmailInputs, pw \in Passwords :
          Quiet /\ LoginVerify(p, e, pw)
    \/ \E p \in OneProc : LoginAccessIat(p)
    \/ \E p \in OneProc : LoginRefreshExp(p)
    \/ \E p \in OneProc : LoginRefreshIat(p)
    \/ \E p \in OneProc : LoginSave(p)
    \/ \E p \in OneProc : LoginCreate(p)
    \/ \E t \in TokenInputs : Quiet /\ RefreshBegin(t)
    \/ RefreshIat
    \/ \E t \in TokenInputs : (\A p \in Procs : lg[p].pc = "idle") /\ Logout(t)

SpecPair == InitSeq /\ [][NextPair]_vars

\* Logins of one user while the clock ticks and the administrator changes
\* the lifetimes at any moment, also between two steps of a Login.
NextHot ==
    \/ Tick
    \/ SetConfig
    \/ \E e \in OneEmail, pw \in Passwords : Register(e, pw)
    \/ \E p \in OneProc, e \in OneEmail, pw \in Passwords : LoginVerify(p, e, pw)
    \/ \E p \in OneProc : LoginAccessIat(p)
    \/ \E p \in OneProc : LoginRefreshExp(p)
    \/ \E p \in OneProc : LoginRefreshIat(p)
    \/ \E p \in OneProc : LoginSave(p)
    \/ \E p \in OneProc : LoginCreate(p)
    \/ \E t \in TokenInputs : Logout(t)

SpecHot == Init /\ [][NextHot]_vars

(* ------------------------------ properties ----------------------------- *)

\* Worker p starts a Login that has passed the credential checks.
LoginStarts(p) == lg[p].pc = "idle" /\ lg'[p].pc = "access_iat"

\* Worker p sends the 200 response of its Login in this step; the tokens the
\* response returns are lg[p].access and lg[p].refresh.
LoginSucceeds(p) ==
    /\ lg[p].pc \in {"save", "create"}
    /\ lg'[p].pc = "idle"
    /\ resp' = Response("login", 200, "", lg[p].user)

\* The refresh tokens Login has issued that a client can still send: those
\* on file and the one last taken off the store.
IssuedRefresh == ({gone} \cup {r.token : r \in store}) \ {NoToken}

\* C1: when Register, Login, Refresh and Logout are served one after another,
\* the store holds at most one row for each user, in every reachable state.
C1_OneRowPerUser == \A r1, r2 \in store : r1.user = r2.user => r1 = r2

\* Two users hold a row each, one of them after a Login replaced its row.
C1_Witness ==
    /\ resp = Response("login", 200, "", gone.user_id)
    /\ Cardinality(store) = 2
    /\ \E r \in store : r.user = gone.user_id /\ r.token # gone

\* C2: after two Login requests of one user served concurrently have both
\* been answered, the store holds exactly one row for that user, and the row
\* holds a token of that user.
C2_ConcurrentLoginsLeaveOneRow ==
    (Quiet /\ resp.op = "login" /\ resp.status = 200) =>
        \E r \in store : /\ RowsOf(resp.user) = {r}
                         /\ r.token.user_id = resp.user

\* C3: a successful Login of user u leaves exactly one row for u, holding
\* the refresh token that Login returns: a first Login adds one row, a later
\* Login replaces the token of the row on file, and rows of other users are
\* left as they were.
C3_LoginStoresReturnedToken ==
    [][\A p \in Procs : LoginSucceeds(p) =>
          /\ \E r \in store' : /\ {x \in store' : x.user = lg[p].user} = {r}
                               /\ r.token = lg[p].refresh
          /\ {x \in store' : x.user # lg[p].user} = {x \in store : x.user # lg[p].user}
          /\ RowsOf(lg[p].user) = {} => Cardinality(store') = Cardinality(store) + 1
          /\ RowsOf(lg[p].user) # {} => Cardinality(store') = Cardinality(store)]_vars

\* A second Login of a user has been answered: the row holds a token issued
\* later than the one it took off the store.
C3_Witness ==
    /\ resp.op = "login" /\ resp.status = 200
    /\ gone.user_id = resp.user
    /\ \E r \in store : /\ RowsOf(resp.user) = {r}
                        /\ r.token.iat > gone.iat

\* C4: Logout with a refresh token that some row holds succeeds and removes
\* exactly that row; every other row is unchanged.
C4_LogoutRemovesThatRow ==
    [][\A t \in TokenInputs : (Logout(t) /\ \E r \in store : r.token = t) =>
          /\ resp'.op = "logout" /\ resp'.status = 200
          /\ \E r \in store : /\ r.token = t
                              /\ store' = store \ {r}
                              /\ Cardinality(store') = Cardinality(store) - 1]_vars

\* A Logout has succeeded and the row of another user is still on file.
C4_Witness ==
    /\ resp = Response("logout", 200, "User logged out.", gone.user_id)
    /\ \E r \in store : r.user # gone.user_id
    /\ ~ \E r \in store : r.token = gone

\* C5: Logout with a non-empty token that no row holds fails with 400
\* "Invalid refresh token" and leaves the store unchanged, in particular a
\* second Logout with the token of the Logout that has just succeeded;
\* Logout with an empty or absent token fails with 400 "Refresh token is
\* required" and leaves the store unchanged.
C5_LogoutFailures ==
    [][\A t \in TokenInputs : Logout(t) =>
          /\ t = NoToken =>
                /\ resp' = Response("logout", 400, "Refresh token is required", 0)
                /\ store' = store
          /\ (t # NoToken /\ ~ \E r \in store : r.token = t) =>
                /\ resp' = Response("logout", 400, "Invalid refresh token", 0)
                /\ store' = store
          /\ (t = gone /\ resp.op = "logout" /\ resp.status = 200) =>
                /\ resp' = Response("logout", 400, "Invalid refresh token", 0)
                /\ store' = store]_vars

\* A Logout has been refused as invalid while a client holds a token that
\* was logged out or replaced and that no row holds.
C5_Witness ==
    /\ resp = Response("logout", 400, "Invalid refresh token", 0)
    /\ gone.sig = "HS256"
    /\ ~ \E r \in store : r.token = gone

\* C6: Refresh does not consult the store: for a refresh token issued by
\* Login whose expiry has not passed and whose user exists, Refresh goes on
\* to return a new access token of that user, whether or not a row holds the
\* token.
C6_RefreshIgnoresStore ==
    [][/\ \A t \in IssuedRefresh :
             (RefreshBegin(t) /\ now < t.exp /\ \E u \in users : u.id = t.user_id)
                => (rf'.pc = "iat" /\ rf'.token = t /\ rf'.user = t.user_id)
       /\ RefreshIat =>
             /\ resp' = Response("refresh", 200, "", rf.user)
             /\ issued'.sig = "HS256"
             /\ issued'.user_id = rf.user
             /\ issued'.exp > now]_vars

\* Refresh has accepted a token that no row of the store holds.
C6_Witness ==
    /\ rf.pc = "iat"
    /\ rf.token = gone
    /\ gone # NoToken
    /\ ~ \E r \in store : r.token = gone

\* C7: a token with a valid signature fails verification as expired exactly
\* when now >= exp: Refresh then answers 401 and the per-request
\* authentication rejects it as expired; when now < exp it verifies.
C7_ExpiryBoundary ==
    [][\A t \in TokenInputs : t.sig = "HS256" =>
          /\ decode_token(t, now) <=> now < t.exp
          /\ RefreshBegin(t) =>
                IF now >= t.exp
                THEN /\ resp' = Response("refresh", 401,
                                         "Invalid or expired refresh token", 0)
                     /\ rf' = rf
                ELSE \/ rf'.pc = "iat"
                     \/ resp' = Response("refresh", 404, "User not found", 0)
          /\ Me(TRUE, t) =>
                IF now >= t.exp
                THEN resp' = Response("me", 0, "Access token has expired", 0)
                ELSE resp'.detail # "Access token has expired"]_vars

\* The access token issued at second 0 for one second has been rejected as
\* expired at second 1, the second of its exp.
C7_Witness ==
    /\ now = 1
    /\ issued.exp = 1
    /\ resp = Response("me", 0, "Access token has expired", 0)

\* C8 as stated: the tokens a Login returns have exp - iat equal to the
\* access and refresh lifetimes the config held when that Login read it.
C8_LifetimeEqualsTtl ==
    [][\A p \in Procs :
          /\ LoginStarts(p) =>
                /\ lg'[p].acc_ttl = config.access
                /\ lg'[p].ref_ttl = config.refresh * SecondsPerDay
          /\ LoginSucceeds(p) =>
                /\ lg[p].access.exp - lg[p].access.iat = lg[p].acc_ttl
                /\ lg[p].refresh.exp - lg[p].refresh.iat = lg[p].ref_ttl]_vars

\* C8: a Login takes both lifetimes from the config as it is at that Login;
\* the tokens it returns have exp - iat at most that lifetime, short of it by
\* no more than the time the Login took, and so equal to it when the clock
\* did not advance during the Login; a change of the config leaves the
\* tokens issued before and the rows on file as they were.
C8_LifetimeWithinTtl ==
    [][/\ \A p \in Procs :
             /\ LoginStarts(p) =>
                   /\ lg'[p].acc_ttl = config.access
                   /\ lg'[p].ref_ttl = config.refresh * SecondsPerDay
             /\ LoginSucceeds(p) =>
                   LET a == lg[p].access
                       r == lg[p].refresh
                       took == now - lg[p].t0
                   IN  /\ a.exp - a.iat <= lg[p].acc_ttl
                       /\ a.exp - a.iat >= lg[p].acc_ttl - took
                       /\ r.exp - r.iat <= lg[p].ref_ttl
                       /\ r.exp - r.iat >= lg[p].ref_ttl - took
       /\ config' # config =>
             /\ store' = store
             /\ issued' = issued
             /\ gone' = gone]_vars

\* A Login has been answered after the refresh lifetime was changed: the
\* token on file and the token it replaced have different lifetimes, and the
\* access token has the lifetime now configured.
C8_Witness ==
    /\ resp = Response("login", 200, "", gone.user_id)
    /\ issued.exp - issued.iat = config.access
    /\ \E r \in store : /\ r.token.exp - r.token.iat = days(config.refresh)
                        /\ gone.exp - gone.iat \in {days(d) : d \in RefreshTTLs}
                        /\ gone.exp - gone.iat # r.token.exp - r.token.iat

\* C9: Login with an email no user has fails with 404 "User does not
\* exist", and Login with a wrong password for an existing user fails with
\* 401 "Invalid credentials"; neither issues a token nor changes the store.
C9_LoginFailures ==
    [][\A p \in Procs, e \in EmailInputs, pw \in LoginPasswords :
          LoginVerify(p, e, pw) =>
             /\ (~ \E u \in users : u.email = e) =>
                   /\ resp' = Response("login", 404, "User does not exist", 0)
                   /\ lg' = lg /\ store' = store /\ issued' = issued
             /\ (\E u \in users : u.email = e /\ u.password # make_password(pw)) =>
                   /\ resp' = Response("login", 401, "Invalid credentials", 0)
                   /\ lg' = lg /\ store' = store /\ issued' = issued]_vars

\* A Login with a wrong password has been refused for a user with a row on
\* file.
C9_Witness ==
    /\ resp = Response("login", 401, "Invalid credentials", 0)
    /\ store # {}
    /\ \A p \in Procs : lg[p].pc = "idle"

\* C10: Refresh with an empty or absent token fails with 400; with a token
\* that is expired or does not verify, with 401; with a token that verifies
\* but whose user does not exist, with 404. No access token is issued.
C10_RefreshFailures ==
    [][\A t \in TokenInputs : RefreshBegin(t) =>
          /\ t = NoToken =>
                /\ resp' = Response("refresh", 400, "Refresh token is required", 0)
                /\ rf' = rf /\ issued' = issued
          /\ (t # NoToken /\ (t.sig # "HS256" \/ t.exp <= now)) =>
                /\ resp' = Response("refresh", 401,
                                    "Invalid or expired refresh token", 0)
                /\ rf' = rf /\ issued' = issued
          /\ (t.sig = "HS256" /\ t.exp > now /\ ~ \E u \in users : u.id = t.user_id) =>
                /\ resp' = Response("refresh", 404, "User not found", 0)
                /\ rf' = rf /\ issued' = issued]_vars

\* Refresh has answered 404 for the unexpired token of a user deleted since
\* the token was issued.
C10_Witness ==
    /\ resp = Response("refresh", 404, "User not found", 0)
    /\ gone.sig = "HS256"
    /\ gone.exp > now
    /\ ~ \E u \in users : u.id = gone.user_id

\* The credential check of Login, as a predicate of the state: a user has
\* the email as sent and the password matches its digest.
LoginAccepts(email, password) ==
    \E u \in users : u.email = email /\ check_password(u, password)

\* C11: for every email and password, a Register that succeeds leaves a
\* state in which Login with the same email and password passes the
\* credential check; and a Login that succeeds returns an access and a
\* refresh token, each carrying the user's user_id and email.
C11_RegisterThenLogin ==
    [][/\ \A e \in EmailInputs, pw \in Passwords :
             (Register(e, pw) /\ resp'.status = 201) => LoginAccepts(e, pw)'
       /\ \A p \in Procs : LoginSucceeds(p) =>
             \E u \in users : /\ u.id = lg[p].user
                              /\ lg[p].access.sig = "HS256"
                              /\ lg[p].refresh.sig = "HS256"
                              /\ lg[p].access.user_id = u.id
                              /\ lg[p].access.email = u.email
                              /\ lg[p].refresh.user_id = u.id
                              /\ lg[p].refresh.email = u.email]_vars

C13_RefreshFrame ==
    [][((\E t \in TokenInputs : RefreshBegin(t)) \/ RefreshIat) =>
          /\ store' = store
          /\ users' = users
          /\ nextId' = nextId
          /\ IssuedRefresh' = IssuedRefresh]_vars

\* A Refresh has succeeded for a user whose row is on file.
C13_Witness ==
    /\ resp.op = "refresh" /\ resp.status = 200
    /\ issued.user_id = resp.user
    /\ \E r \in store : r.user = resp.user /\ r.token # issued

RefreshAfterLogin ==
    /\ RefreshIat
    /\ resp.op = "login" /\ resp.status = 200
    /\ \E r \in store : r.user = resp.user /\ r.token = rf.token

\* C15 as stated: in Login then Refresh with the refresh token that Login
\* returned, the access token of Refresh differs from the access token of
\* the Login, at every clock value.
C15_RefreshedAccessDiffers ==
    [][RefreshAfterLogin => issued' # issued]_vars

\* C15: in Login then Refresh with the refresh token that Login returned,
\* the access token of Refresh differs from the access token of the Login
\* when Refresh is served in a later second, or when the Login's access
\* token does not have the 900-second lifetime Refresh gives; when the
\* Login's access token was issued in the same second with a lifetime of 900
\* seconds, the two access tokens are the same string.
C15_RefreshedAccessDiffersByTime ==
    [][RefreshAfterLogin =>
          /\ issued.iat < now => issued' # issued
          /\ issued.exp - issued.iat # ACCESS_TOKEN_EXPIRATION => issued' # issued
          /\ (issued.iat = now /\ issued.exp - issued.iat = ACCESS_TOKEN_EXPIRATION)
                => issued' = issued]_vars

\* A Refresh has answered in the second in which the Login issued its
\* tokens, with the access lifetime configured as 900 seconds.
C15_Witness ==
    /\ resp.op = "refresh" /\ resp.status = 200
    /\ config.access = ACCESS_TOKEN_EXPIRATION
    /\ issued.iat = now
    /\ \E r \in store : /\ r.user = resp.user
                        /\ r.token.iat = now
                        /\ r.token.exp - r.token.iat = days(config.refresh)

\* Worker p's save_refresh_token ends in this step, and before it a row of
\* another user holds the token it was given.
SaveOfTakenToken(p) ==
    /\ lg[p].pc \in {"save", "create"}
    /\ lg'[p].pc = "idle"
    /\ \E r \in store : r.token = lg[p].refresh /\ r.user # lg[p].user

\* C16: in every reachable state, also with saves running concurrently, no
\* two rows of the store hold the same token; a save that would store a
\* token held by another user's row fails with the database's integrity
\* error (or, when the user already has several rows, with the lookup's
\* error) and leaves the store unchanged.
C16_TokenUnique ==
    /\ [](\A r1, r2 \in store : r1.token = r2.token => r1 = r2)
    /\ [][\A p \in Procs : SaveOfTakenToken(p) =>
             /\ store' = store
             /\ resp'.op = "login" /\ resp'.status = 500
             /\ Cardinality(RowsOf(lg[p].user)) <= 1 => resp'.detail = "IntegrityError"]_vars

\* A save has been refused with IntegrityError while rows are on file.
C16_Witness ==
    /\ resp.op = "login" /\ resp.status = 500 /\ resp.detail = "IntegrityError"
    /\ \E r \in store : r.user # resp.user /\ r.token.user_id = r.user

\* C17: every access token issued, by Login or by Refresh, gets its exp
\* from the access_ttl configured at the moment of issue: exp is the clock
\* read plus config.access, for Refresh as for Login.
C17_AccessTtlConfigured ==
    [][/\ \A p \in Procs : LoginStarts(p) => lg'[p].exp = now + config.access
       /\ \A t \in TokenInputs :
             (RefreshBegin(t) /\ rf'.pc = "iat") => rf'.exp = now + config.access
       /\ RefreshIat => issued'.exp = rf.exp]_vars

\* A Refresh has been answered while the configured access lifetime is not
\* the 900 seconds of the module constant.
C17_Witness ==
    /\ resp.op = "refresh" /\ resp.status = 200
    /\ config.access # ACCESS_TOKEN_EXPIRATION
    /\ issued.exp - issued.iat = ACCESS_TOKEN_EXPIRATION

\* C18 as stated: Register with an email an existing user has fails with
\* 400 and creates no user; a successful Register adds exactly one user,
\* with the email as sent; Register issues no token and leaves the store
\* unchanged.
C18_RegisterAddsEmailAsSent ==
    [][\A e \in EmailInputs, pw \in Passwords : Register(e, pw) =>
          /\ (\E u \in users : u.email = e) =>
                (resp' = Response("register", 400, "validation", 0) /\ users' = users)
          /\ resp'.status = 201 =>
                \E u \in users' : /\ u \notin users
                                  /\ users' = users \cup {u}
                                  /\ u.email = e
                                  /\ \A v \in users : v.email # u.email
          /\ store' = store /\ issued' = issued /\ gone' = gone]_vars

\* C18: Register with an email an existing user has, as sent or with its
\* domain lowercased, fails with 400 and creates no user; a successful
\* Register adds exactly one user, whose email is the email sent with its
\* domain lowercased and is the email of no other user; Register issues no
\* token and leaves the store unchanged.
C18_RegisterDuplicate ==
    [][\A e \in EmailInputs, pw \in Passwords : Register(e, pw) =>
          /\ (\E u \in users : u.email = e \/ u.email = normalize_email(e)) =>
                (resp' = Response("register", 400, "validation", 0) /\ users' = users)
          /\ resp'.status = 201 =>
                \E u \in users' : /\ u \notin users
                                  /\ users' = users \cup {u}
                                  /\ u.email = [local |-> e.local,
                                                domain |-> LowerDomain(e.domain)]
                                  /\ \A v \in users : v.email # u.email
          /\ store' = store /\ issued' = issued /\ gone' = gone]_vars

\* A Register has been refused while a user with a row on file exists.
C18_Witness ==
    /\ resp = Response("register", 400, "validation", 0)
    /\ users # {}
    /\ store # {}

\* C19 as stated: rows leave the store only through Logout and change only
\* through Login; the passage of time, Refresh and per-request
\* authentication never delete or alter a row; Logout with the token of a
\* row whose expires_at has passed succeeds and deletes the row.
C19_RowsLeaveOnlyByLogout ==
    [][/\ (Tick \/ NextDay \/ RefreshIat
             \/ (\E t \in TokenInputs : RefreshBegin(t))
             \/ (\E b \in BOOLEAN, t \in TokenInputs : Me(b, t))) => store' = store
       /\ (\E r \in store : \A x \in store' : x.user # r.user) =>
             \E t \in TokenInputs : Logout(t)
       /\ (\E r \in store' : r \notin store) =>
             \E p \in Procs : LoginSave(p) \/ LoginCreate(p)
       /\ \A t \in TokenInputs :
             (Logout(t) /\ \E r \in store : r.token = t /\ r.expires_at <= now) =>
                /\ resp'.op = "logout" /\ resp'.status = 200
                /\ \E r \in store : r.token = t /\ store' = store \ {r}]_vars

\* C19: rows leave the store only through Logout or with the deletion of
\* their user (the cascade), and change only through Login; the passage of
\* time, Refresh and per-request authentication never delete or alter a
\* row; Logout with the token of a row whose expires_at has passed succeeds
\* and deletes the row.
C19_NoExpirySweep ==
    [][/\ (Tick \/ NextDay \/ RefreshIat
             \/ (\E t \in TokenInputs : RefreshBegin(t))
             \/ (\E b \in BOOLEAN, t \in TokenInputs : Me(b, t))) => store' = store
       /\ (\E r \in store : \A x \in store' : x.user # r.user) =>
             \/ \E t \in TokenInputs : Logout(t)
             \/ \E uid \in 1..MaxUsers : DeleteUser(uid)
       /\ (\E r \in store' : r \notin store) =>
             \E p \in Procs : LoginSave(p) \/ LoginCreate(p)
       /\ \A t \in TokenInputs :
             (Logout(t) /\ \E r \in store : r.token = t /\ r.expires_at <= now) =>
                /\ resp'.op = "logout" /\ resp'.status = 200
                /\ \E r \in store : r.token = t /\ store' = store \ {r}]_vars

\* A Logout with an expired refresh token has succeeded.
C19_Witness ==
    /\ resp = Response("logout", 200, "User logged out.", gone.user_id)
    /\ gone.sig = "HS256"
    /\ gone.exp <= now
    /\ ~ \E r \in store : r.token = gone

\* C20: a Logout or a Refresh leaves untouched everything a call for
\* another user depends on. A Logout removes the row holding its token and
\* nothing else, its result is decided by whether a row holds its token, and
\* it changes neither the users, the clock nor a Refresh in flight; a
\* Refresh changes neither the store nor the users. So calls that concern
\* different users give the same results and the same final store in either
\* order and interleaved, and a call with user A's token never changes
\* user B's row.
C20_DifferentUsersIndependent ==
    [][/\ \A tB \in TokenInputs : Logout(tB) =>
             /\ resp'.status = 200 <=> \E r \in store : r.token = tB
             /\ store' = {r \in store : r.token # tB}
             /\ \A r \in store : r.user # tB.user_id => r \in store'
             /\ \A tA \in TokenInputs : tA.user_id # tB.user_id =>
                   {r \in store' : r.token = tA} = {r \in store : r.token = tA}
             /\ rf' = rf /\ users' = users /\ now' = now
       /\ ((\E t \in TokenInputs : RefreshBegin(t)) \/ RefreshIat) =>
             (store' = store /\ users' = users /\ now' = now)]_vars

\* A Logout of one user has succeeded while a Refresh of another user, whose
\* row is on file, is in flight.
C20_Witness ==
    /\ resp.op = "logout" /\ resp.status = 200
    /\ rf.pc = "iat"
    /\ rf.user # resp.user
    /\ \E r \in store : r.user = rf.user

\* C21: in every reachable state, also after concurrent Logins of one user,
\* a Login that has passed the credential check ends in success with both
\* tokens, and every Login ends in one of success (200), UserNotFound (404)
\* and BadCredentials (401), never in an unhandled storage error.
C21_LoginNeverStorageError ==
    /\ [](resp.op = "login" => resp.status \in {200, 401, 404})
    /\ [][\A p \in Procs : (lg[p].pc \in {"save", "create"} /\ lg'[p].pc = "idle") =>
             /\ LoginSucceeds(p)
             /\ lg[p].access.sig = "HS256"
             /\ lg[p].refresh.sig = "HS256"]_vars

\* A Login with correct credentials has been answered 500 while the store
\* holds two rows of its user.
C21_Witness ==
    /\ resp = Response("login", 500, "MultipleObjectsReturned", resp.user)
    /\ Cardinality(RowsOf(resp.user)) = 2

\* C22: tokens carry no type and both kinds are verified the same way. The
\* access and the refresh token of a Login have the same claims (user_id,
\* email, exp, iat); Refresh accepts any signature-valid, unexpired token
\* whose user exists, the access token last issued included, and goes on to
\* return a new access token of that user; GET /me authenticates any such
\* token, a refresh token on file included, as its user.
C22_TokensUntyped ==
    [][/\ \A p \in Procs : LoginSucceeds(p) =>
             DOMAIN lg[p].access = DOMAIN lg[p].refresh
       /\ \A t \in TokenInputs :
             (t.sig = "HS256" /\ now < t.exp /\ \E u \in users : u.id = t.user_id) =>
                /\ RefreshBegin(t) =>
                      (rf'.pc = "iat" /\ rf'.token = t /\ rf'.user = t.user_id)
                /\ Me(TRUE, t) => resp' = Response("me", 200, "", t.user_id)
       /\ RefreshIat =>
             /\ resp' = Response("refresh", 200, "", rf.user)
             /\ issued'.sig = "HS256"
             /\ issued'.user_id = rf.user]_vars

\* Refresh has accepted the access token last issued: a token of less than
\* a day that is not the refresh token on file for its user.
C22_Witness ==
    /\ rf.pc = "iat"
    /\ rf.token = issued
    /\ issued.sig = "HS256"
    /\ issued.exp - issued.iat < SecondsPerDay
    /\ issued # gone
    /\ \E r \in store : r.user = issued.user_id /\ r.token # issued

\* C23: for every row of the store, in every reachable state, the stored
\* expires_at is within one second of the exp claim of the row's token,
\* also when the clock advances or the refresh lifetime is changed between
\* the creation of the token and the write of the row.
C23_RowExpiryMatchesToken ==
    \A r \in store : /\ r.expires_at - r.token.exp <= 1
                     /\ r.token.exp - r.expires_at <= 1

\* A row is on file whose expires_at is a day or more away from the exp of
\* its token.
C23_Witness ==
    \E r \in store : \/ r.expires_at - r.token.exp >= SecondsPerDay
                     \/ r.token.exp - r.expires_at >= SecondsPerDay

====
